---- MODULE Spec2Model ----
(***************************************************************************)
(* Model of src/src/state.rs: the parser of UTT (Ultimate Tic Tac Toe)     *)
(* strings.  The input is a sequence of one-character strings; offsets are *)
(* 0-based as in the source, so the character at offset p is s[p + 1].     *)
(*                                                                         *)
(* Every parser of the grammar is an operator (s, p, far) -> record:       *)
(*   ok     whether it matched at offset p                                 *)
(*   pos    the offset after the match (p when it failed)                  *)
(*   out    its output                                                     *)
(*   far    the furthest offset at which a token was refused so far        *)
(*   custom the error a try_map closure raised, or NoCustom                *)
(*   panic  the unwrap() that panicked, or NoPanic                         *)
(***************************************************************************)
EXTENDS Integers, Sequences, FiniteSets, TLC

VARIABLES input, pc, result

vars == <<input, pc, result>>

----------------------------------------------------------------------------
\* Characters

Digits == <<"0", "1", "2", "3", "4", "5", "6", "7", "8", "9">>

Files == <<"a", "b", "c", "d", "e", "f", "g", "h", "i">>

CellChars == {"X", "O", "_"}

IndexOf(seq, c) == CHOOSE k \in 1..Len(seq) : seq[k] = c

Range(seq) == {seq[k] : k \in 1..Len(seq)}

Max(a, b) == IF a >= b THEN a ELSE b

\* The character at offset p, or "EOF" past the end of the input.
At(s, p) == IF p < Len(s) THEN s[p + 1] ELSE "EOF"

NoCustom == <<>>

NoPanic == "none"

None == <<"None">>

Some(v) == <<"Some", v>>

Fail(p, far) ==
    [ok |-> FALSE, pos |-> p, out |-> <<>>, far |-> far,
     custom |-> NoCustom, panic |-> NoPanic]

Done(p, out, far) ==
    [ok |-> TRUE, pos |-> p, out |-> out, far |-> far,
     custom |-> NoCustom, panic |-> NoPanic]

----------------------------------------------------------------------------
\* Move::new

Move_new(row, col) ==
    IF ~(row \in 0..8) THEN [ok |-> FALSE, err |-> "InvalidRow"]
    ELSE IF ~(col \in 0..8) THEN [ok |-> FALSE, err |-> "InvalidColumn"]
    ELSE [ok |-> TRUE, move |-> [row |-> row, column |-> col]]

----------------------------------------------------------------------------
\* Sequencing: the result r of one parser, evaluated once, handed to what
\* follows it.

Then(r, K(_)) == CHOOSE v \in {K(x) : x \in {r}} : TRUE

----------------------------------------------------------------------------
\* The primitives: just(c) and one_of(set)

just(c, s, p, far) ==
    IF At(s, p) = c THEN Done(p + 1, c, far) ELSE Fail(p, Max(far, p))

one_of(set, s, p, far) ==
    IF At(s, p) \in set THEN Done(p + 1, At(s, p), far)
    ELSE Fail(p, Max(far, p))

\* one_of('0'..='9').map(|c| c.to_digit(10).unwrap() as usize)
digit(s, p, far) ==
    Then(one_of(Range(Digits), s, p, far), LAMBDA d :
        IF d.ok THEN [d EXCEPT !.out = IndexOf(Digits, d.out) - 1] ELSE d)

slash(s, p, far) == just("/", s, p, far)

\* choice((just('X').to(X), just('O').to(O), just('_').to(Empty)))
cell(s, p, far) ==
    Then(just("X", s, p, far), LAMBDA x :
        IF x.ok THEN [x EXCEPT !.out = "X"] ELSE
    Then(just("O", s, p, x.far), LAMBDA o :
        IF o.ok THEN [o EXCEPT !.out = "O"] ELSE
    Then(just("_", s, p, o.far), LAMBDA e :
        IF e.ok THEN [e EXCEPT !.out = "Empty"] ELSE e)))

\* vec![cell; run_len]
Repeat(c, n) == [k \in 1..n |-> c]

\* choice((cell.map(|c| vec![c]), digit.then(cell).map(vec![cell; run_len])))
run(s, p, far) ==
    Then(cell(s, p, far), LAMBDA c :
        IF c.ok THEN [c EXCEPT !.out = <<c.out>>] ELSE
    Then(digit(s, p, c.far), LAMBDA d :
        IF ~d.ok THEN Fail(p, d.far) ELSE
    Then(cell(s, d.pos, d.far), LAMBDA c2 :
        IF ~c2.ok THEN Fail(p, c2.far)
        ELSE Done(c2.pos, Repeat(c2.out, d.out), c2.far))))

\* run.repeated(): runs until one fails; the output collects each run's cells.
RECURSIVE repeated_run(_, _, _, _)
repeated_run(s, p, far, acc) ==
    Then(run(s, p, far), LAMBDA r :
        IF r.ok
        THEN Then(Append(acc, r.out), LAMBDA acc2 :
                 repeated_run(s, r.pos, r.far, acc2))
        ELSE Done(p, acc, r.far))

\* into_iter().flatten().collect()
RECURSIVE Flatten(_)
Flatten(ss) == IF ss = <<>> THEN <<>> ELSE Head(ss) \o Flatten(Tail(ss))

BoardMessage == "Board must have exactly 9 squares, got: "

\* Variant of row that omits the check of the cell count (for testing C2).
row_unchecked(s, p, far) ==
    Then(repeated_run(s, p, far, <<>>), LAMBDA rs :
        IF Len(rs.out) < 1 THEN Fail(p, rs.far)
        ELSE Done(rs.pos, Flatten(rs.out), rs.far))

\* run.repeated().at_least(1).collect().try_map(..): the closure's span runs
\* from the offset where the row starts to the offset after its last run.
row(s, p, far) ==
    Then(repeated_run(s, p, far, <<>>), LAMBDA rs :
    Then(Flatten(rs.out), LAMBDA cells :
        IF Len(rs.out) < 1 THEN Fail(p, rs.far)
        ELSE IF Len(cells) # 9
        THEN [Fail(p, rs.far) EXCEPT
                 !.custom = [start |-> p, end |-> rs.pos,
                             reason |-> <<BoardMessage, Len(cells)>>]]
        ELSE Done(rs.pos, cells, rs.far)))

\* digit.then_ignore(slash)
active_brd(s, p, far) ==
    Then(digit(s, p, far), LAMBDA d :
        IF ~d.ok THEN Fail(p, d.far) ELSE
    Then(slash(s, d.pos, d.far), LAMBDA sl :
        IF ~sl.ok THEN Fail(p, sl.far)
        ELSE Done(sl.pos, d.out, sl.far)))

\* row.separated_by(slash): a separator before every row but the first, until
\* n rows are collected; a refused separator or row ends the repetition.
RECURSIVE separated_rows(_, _, _, _, _)
separated_rows(n, s, p, far, acc) ==
    IF Len(acc) >= n THEN Done(p, acc, far) ELSE
    Then(IF acc = <<>> THEN Done(p, "", far) ELSE slash(s, p, far), LAMBDA sep :
        IF ~sep.ok THEN Done(p, acc, sep.far) ELSE
    Then(row(s, sep.pos, sep.far), LAMBDA r :
        IF ~r.ok THEN [Done(p, acc, r.far) EXCEPT !.custom = r.custom]
        ELSE Then(Append(acc, r.out), LAMBDA acc2 :
                 separated_rows(n, s, r.pos, r.far, acc2))))

\* Variant of boards with at_least(9) in place of exactly(9) (for testing C10).
boards_at_least(s, p, far) ==
    Then(separated_rows(Len(s), s, p, far, <<>>), LAMBDA rs :
        IF Len(rs.out) < 9
        THEN [Fail(p, rs.far) EXCEPT !.custom = rs.custom]
        ELSE rs)

\* row.separated_by(slash).exactly(9).collect::<Vec<Vec<Square>>>()
boards(s, p, far) ==
    Then(separated_rows(9, s, p, far, <<>>), LAMBDA rs :
        IF Len(rs.out) < 9
        THEN [Fail(p, rs.far) EXCEPT !.custom = rs.custom]
        ELSE rs)

\* Variant of move_token whose leading slash is required (for testing C9).
move_token_slash(s, p, far) ==
    Then(slash(s, p, far), LAMBDA sl :
        IF ~sl.ok THEN Fail(p, sl.far) ELSE
    Then(one_of(Range(Files), s, sl.pos, sl.far), LAMBDA f :
        IF ~f.ok THEN Fail(p, f.far) ELSE
    Then(digit(s, f.pos, f.far), LAMBDA d :
        IF ~d.ok THEN Fail(p, d.far) ELSE
    Then(Move_new(IndexOf(Files, f.out) - 1, d.out), LAMBDA m :
        IF ~m.ok
        THEN [Fail(p, d.far) EXCEPT !.panic = "Move::new.unwrap"]
        ELSE Done(d.pos, m.move, d.far)))))

\* Variant of move_token that hands Move::new the digit first and the letter's
\* index second (for testing C5).
move_token_swapped(s, p, far) ==
    Then(slash(s, p, far), LAMBDA sl :
    Then(one_of(Range(Files), s, sl.pos, sl.far), LAMBDA f :
        IF ~f.ok THEN Fail(p, f.far) ELSE
    Then(digit(s, f.pos, f.far), LAMBDA d :
        IF ~d.ok THEN Fail(p, d.far) ELSE
    Then(Move_new(d.out, IndexOf(Files, f.out) - 1), LAMBDA m :
        IF ~m.ok
        THEN [Fail(p, d.far) EXCEPT !.panic = "Move::new.unwrap"]
        ELSE Done(d.pos, m.move, d.far)))))

\* slash.or_not().ignore_then(one_of('a'..='i').map(c - 'a')).then(digit)
\*     .map(|(board, index)| Move::new(board as u8, index as u8).unwrap())
\* The slash may be absent: the file letter is read where the slash ended.
move_token(s, p, far) ==
    Then(slash(s, p, far), LAMBDA sl :
    Then(one_of(Range(Files), s, sl.pos, sl.far), LAMBDA f :
        IF ~f.ok THEN Fail(p, f.far) ELSE
    Then(digit(s, f.pos, f.far), LAMBDA d :
        IF ~d.ok THEN Fail(p, d.far) ELSE
    LET board == IndexOf(Files, f.out) - 1
        index == d.out
    IN
    Then(Move_new(board, index), LAMBDA m :
        IF ~m.ok
        THEN [Fail(p, d.far) EXCEPT !.panic = "Move::new.unwrap"]
        ELSE Done(d.pos, m.move, d.far)))))

\* (..).or_not()
last_move(s, p, far) ==
    Then(move_token(s, p, far), LAMBDA m :
        IF m.panic # NoPanic THEN m
        ELSE IF m.ok THEN [m EXCEPT !.out = Some(m.out)]
        ELSE Done(p, None, m.far))

\* end()
end(s, p, far) ==
    IF p >= Len(s) THEN Done(p, <<>>, far) ELSE Fail(p, Max(far, p))

\* Variant of squares_of that flattens the boards last to first (for testing C4).
squares_reversed(bs) ==
    Then(Flatten([k \in 1..Len(bs) |-> bs[Len(bs) + 1 - k]]), LAMBDA flat :
        IF Len(flat) = 81 THEN [ok |-> TRUE, squares |-> flat]
        ELSE [ok |-> FALSE, squares |-> flat])

\* .try_into().unwrap() of the flattened boards into [Square; 81]
squares_of(bs) ==
    Then(Flatten(bs), LAMBDA flat :
        IF Len(flat) = 81 THEN [ok |-> TRUE, squares |-> flat]
        ELSE [ok |-> FALSE, squares |-> flat])

\* active_brd.then(boards).then(last_move).then_ignore(end()).map(State {..})
_parse(s) ==
    Then(active_brd(s, 0, -1), LAMBDA a :
        IF ~a.ok THEN a ELSE
    Then(boards(s, a.pos, a.far), LAMBDA b :
        IF ~b.ok THEN b ELSE
    Then(last_move(s, b.pos, b.far), LAMBDA lm :
        IF lm.panic # NoPanic THEN lm ELSE
    Then(end(s, lm.pos, lm.far), LAMBDA e :
        IF ~e.ok THEN e ELSE
    Then(squares_of(b.out), LAMBDA sq :
        IF ~sq.ok
        THEN [Fail(0, e.far) EXCEPT !.panic = "try_into.unwrap"]
        ELSE Done(e.pos,
                  [active |-> a.out, squares |-> sq.squares,
                   last_move |-> lm.out],
                  e.far))))))

----------------------------------------------------------------------------
\* parse: the wrapper around the chumsky parser

\* The error the parser ends with when no closure raised one: the token it
\* refused at the furthest offset (a half-open span of one character, empty at
\* the end of the input).
Unexpected(s, r) ==
    [start |-> r.far,
     end |-> IF r.far < Len(s) THEN r.far + 1 ELSE r.far,
     reason |-> <<"found", At(s, r.far)>>]

\* res.into_errors(): the errors of a failed parse.  Without recovery there is
\* exactly one.  When the row closure raised its error, which of the two the
\* chumsky crate reports (the closure's, or the refused token further on) is
\* decided by the crate's error priority, which the repository does not pin:
\* both are possible.
into_errors(s, r) ==
    IF r.custom # NoCustom THEN {<<r.custom>>, <<Unexpected(s, r)>>}
    ELSE {<<Unexpected(s, r)>>}

\* let span = sp.start..=sp.end: the span's two offsets become the bounds of
\* an inclusive range.
Diagnostic(e) == [span |-> [lo |-> e.start, hi |-> e.end], reason |-> e.reason]

MapErrs(errs) == [k \in 1..Len(errs) |-> Diagnostic(errs[k])]

NoResult == [kind |-> "none"]

\* The possible results of parse(s): a panic, Err(diagnostics) or Ok(State).
parse(s) ==
    Then(_parse(s), LAMBDA r :
        IF r.panic # NoPanic THEN {[kind |-> "Panic", at |-> r.panic]}
        ELSE IF ~r.ok
        THEN {[kind |-> "Err", errs |-> MapErrs(errs)] : errs \in into_errors(s, r)}
        ELSE {[kind |-> "Ok", state |-> r.out]})

----------------------------------------------------------------------------
\* The inputs: an active-board prefix, boards joined by slashes, and a tail.

MaxOddBoards == 2

DefaultBoard == <<"9", "_">>

OddBoards ==
    { <<"9", "X">>,
      <<"3", "X", "2", "O", "4", "_">>,
      <<"X", "O", "X", "O", "X", "O", "X", "O", "X">>,
      <<"0", "X", "9", "_">>,
      <<"8", "X">>,
      <<"9", "_", "X">>,
      <<"9">>,
      <<>> }

GoodPrefixes == { <<"0", "/">>, <<"9", "/">> }

BadPrefixes == { <<"4">>, <<"/">>, <<"x", "/">> }

Tails ==
    { <<>>, <<"a", "1">>, <<"/", "a", "1">>, <<"i", "8">>, <<"/", "c", "0">>,
      <<"a", "9">>, <<"/", "i", "9">>, <<"a", "1", "x">>, <<"x">>, <<"/">>,
      <<"a">>, <<"j", "1">>, <<"/", "/", "a", "1">> }

BoardCounts == {8, 9, 10}

RECURSIVE Join(_)
Join(bs) ==
    IF bs = <<>> THEN <<>>
    ELSE IF Len(bs) = 1 THEN bs[1]
    ELSE bs[1] \o <<"/">> \o Join(Tail(bs))

\* The places of a list of boards where a board other than the default may
\* stand: the first, the middle and the last of nine.
OddPlaces == {1, 5, 9}

\* The lists of n boards of which at most MaxOddBoards are not the default.
BoardLists(n) ==
    { [k \in 1..n |-> IF k \in DOMAIN odd THEN odd[k] ELSE DefaultBoard] :
      odd \in UNION { [P -> OddBoards] :
                      P \in {Q \in SUBSET (OddPlaces \cap 1..n) :
                                 Cardinality(Q) <= MaxOddBoards} } }

Inputs ==
    { pre \o Join(bs) \o tl :
        pre \in GoodPrefixes, bs \in BoardLists(9), tl \in Tails }
    \cup
    { pre \o Join(bs) :
        pre \in GoodPrefixes, bs \in UNION {BoardLists(n) : n \in BoardCounts} }
    \cup
    { pre \o Join([k \in 1..9 |-> DefaultBoard]) \o tl :
        pre \in BadPrefixes, tl \in Tails }

----------------------------------------------------------------------------
\* The state machine: an input is given, parse is called on it once.

Init ==
    /\ input \in Inputs
    /\ pc = "call"
    /\ result = NoResult

Parse ==
    /\ pc = "call"
    /\ result' \in parse(input)
    /\ pc' = "done"
    /\ UNCHANGED input

Next == Parse

Spec == Init /\ [][Next]_vars

----------------------------------------------------------------------------
\* Reading the input text directly, without the parser: the segments between
\* slashes, and the cells a board text stands for.

DigitValue(c) == IndexOf(Digits, c) - 1

SquareOf(c) == IF c = "X" THEN "X" ELSE IF c = "O" THEN "O" ELSE "Empty"

SlashOffsets(s) == {p \in 0..(Len(s) - 1) : s[p + 1] = "/"}

NthSlash(s, k) ==
    CHOOSE p \in SlashOffsets(s) :
        Cardinality({q \in SlashOffsets(s) : q < p}) = k - 1

NumSegments(s) == Cardinality(SlashOffsets(s)) + 1

\* The k-th slash-separated segment of s (k = 1 holds the active digit).
SegmentOf(s, k) ==
    LET lo == IF k = 1 THEN 0 ELSE NthSlash(s, k - 1) + 1
        hi == IF k >= NumSegments(s) THEN Len(s) ELSE NthSlash(s, k)
    IN  SubSeq(s, lo + 1, hi)

\* The number of cells the character at index j of a board text stands for.
Weight(seg, j) ==
    IF seg[j] \notin CellChars THEN 0
    ELSE IF j > 1 /\ seg[j - 1] \in Range(Digits) THEN DigitValue(seg[j - 1])
    ELSE 1

CellsUpTo(seg) ==
    LET pre[j \in 0..Len(seg)] == IF j = 0 THEN 0 ELSE pre[j - 1] + Weight(seg, j)
    IN  pre

DecodedCount(seg) == CellsUpTo(seg)[Len(seg)]

\* The i-th cell (1-based) a board text stands for.
ExpectedCell(seg, i) ==
    LET pre == CellsUpTo(seg)
        j == CHOOSE j \in 1..Len(seg) : pre[j - 1] < i /\ i <= pre[j]
    IN  SquareOf(seg[j])

\* A board text of the grammar: runs only, standing for exactly 9 cells.
WellFormedBoard(seg) ==
    /\ Len(seg) >= 1
    /\ \A j \in 1..Len(seg) : seg[j] \in CellChars \cup Range(Digits)
    /\ seg[Len(seg)] \in CellChars
    /\ \A j \in 1..(Len(seg) - 1) :
           seg[j] \in Range(Digits) => seg[j + 1] \in CellChars
    /\ DecodedCount(seg) = 9

EndsWithMove(s) ==
    /\ Len(s) >= 2
    /\ s[Len(s) - 1] \in Range(Files)
    /\ s[Len(s)] \in Range(Digits)

FormsMoveToken(sfx) ==
    \/ Len(sfx) = 2 /\ EndsWithMove(sfx)
    \/ Len(sfx) = 3 /\ sfx[1] = "/" /\ EndsWithMove(sfx)

HasZeroRun(s) ==
    \E j \in 2..(Len(s) - 1) :
        s[j] = "0" /\ s[j + 1] \in CellChars /\ s[j - 1] \notin Range(Files)

Accepted == pc = "done" /\ result.kind = "Ok"

BoardCells(sq, b) == SubSeq(sq, 9 * b + 1, 9 * b + 9)

----------------------------------------------------------------------------
\* The claims

\* C1: for every input, parse returns Ok(State) or Err with a non-empty list
\* of diagnostics; it never panics (in particular not on a move token whose
\* rank digit is 9).
C1_NeverPanics ==
    pc = "done" =>
        \/ result.kind = "Ok"
        \/ result.kind = "Err" /\ Len(result.errs) >= 1

\* C2: every State of a successful parse has 81 squares, an active board in
\* 0..9 that is the input's first digit, and a last move (if any) whose row
\* and column are in 0..8; the conversion to the 81-element array never fails.
C2_StateInvariants ==
    /\ Accepted =>
          /\ Len(result.state.squares) = 81
          /\ result.state.active \in 0..9
          /\ input[1] \in Range(Digits)
          /\ result.state.active = DigitValue(input[1])
          /\ result.state.last_move # None =>
                /\ result.state.last_move[2].row \in 0..8
                /\ result.state.last_move[2].column \in 0..8
    /\ pc = "done" => ~(result.kind = "Panic" /\ result.at = "try_into.unwrap")

C2_Witness ==
    /\ Accepted
    /\ result.state.active = 9
    /\ result.state.last_move # None
    /\ \E k \in 1..81 : result.state.squares[k] = "O"

\* C4: run-length decoding is faithful and order-preserving: in an accepted
\* input, squares[9*b + i] is the i-th cell the text of the b-th board stands
\* for (a bare symbol one cell, a digit d and a symbol d cells); "9X" gives
\* nine X and "3X2O4_" gives X,X,X,O,O,_,_,_,_.
C4_RunLengthFaithful ==
    Accepted =>
        \A b \in 0..8 :
            LET seg == SegmentOf(input, b + 2)
                cells == BoardCells(result.state.squares, b)
            IN  /\ \A i \in 0..8 :
                       result.state.squares[9 * b + i + 1] = ExpectedCell(seg, i + 1)
                /\ seg = <<"9", "X">> => cells = [i \in 1..9 |-> "X"]
                /\ seg = <<"3", "X", "2", "O", "4", "_">> =>
                       cells = <<"X", "X", "X", "O", "O",
                                 "Empty", "Empty", "Empty", "Empty">>

C4_Witness ==
    /\ Accepted
    /\ SegmentOf(input, 6) = <<"3", "X", "2", "O", "4", "_">>
    /\ BoardCells(result.state.squares, 4) =
           <<"X", "X", "X", "O", "O", "Empty", "Empty", "Empty", "Empty">>

C6_ZeroCountRejected ==
    (pc = "done" /\ HasZeroRun(input)) => result.kind # "Ok"

\* C7: for a board whose decoded cell count is not 9, a diagnostic's span,
\* read as an inclusive range, starts at the offset of the board's first
\* character and ends at the offset of its last character.
C7_SpanCoversBoard ==
    LET c == _parse(input).custom
    IN  (pc = "done" /\ result.kind = "Err" /\ c # NoCustom) =>
            \E k \in 1..Len(result.errs) :
                result.errs[k].span = [lo |-> c.start, hi |-> c.end - 1]

Suffixes ==
    { <<"x">>, <<"/">>, <<"X">>, <<"1">>, <<"a">>, <<"a", "1">>,
      <<"/", "9", "_">>, <<"0", "X">> }

\* C8: appending characters to an accepted input that ends with a move token,
\* or characters that do not form a move token to an accepted input without
\* one, makes parse return Err.
C8_TrailingInputRejected ==
    Accepted =>
        \A sfx \in Suffixes :
            (EndsWithMove(input) \/ ~FormsMoveToken(sfx)) =>
                \A r \in parse(input \o sfx) : r.kind = "Err"

\* C9: an accepted input B without a move token has last_move = None, and for
\* every in-range move token m, parse(B + m) and parse(B + "/" + m) both
\* succeed with the active board and squares of parse(B) and the same
\* Some(last_move).
C9_OptionalMove ==
    (Accepted /\ ~EndsWithMove(input)) =>
        /\ result.state.last_move = None
        /\ \A f \in Range(Files), d \in Range(Digits) \ {"9"} :
               \A r1 \in parse(input \o <<f, d>>),
                  r2 \in parse(input \o <<"/", f, d>>) :
                   /\ r1.kind = "Ok" /\ r2.kind = "Ok"
                   /\ r1.state.active = result.state.active
                   /\ r2.state.active = result.state.active
                   /\ r1.state.squares = result.state.squares
                   /\ r2.state.squares = result.state.squares
                   /\ r1.state.last_move # None
                   /\ r1.state.last_move = r2.state.last_move

C9_Witness ==
    /\ Accepted
    /\ ~EndsWithMove(input)
    /\ result.state.last_move = None
    /\ \E k \in 1..81 : result.state.squares[k] = "O"

\* C10: an input of an active digit, a slash and well-formed boards separated
\* by slashes is rejected with Err when the boards are fewer than nine or ten.
C10_ExactlyNineBoards ==
    LET n == NumSegments(input) - 1
    IN  ( /\ pc = "done"
          /\ n \in {m \in 1..10 : m # 9}
          /\ SegmentOf(input, 1) \in {<<d>> : d \in Range(Digits)}
          /\ \A k \in 2..(n + 1) : WellFormedBoard(SegmentOf(input, k)) )
        => result.kind = "Err"

C10_Witness ==
    /\ pc = "done"
    /\ NumSegments(input) = 11
    /\ \A k \in 2..11 : WellFormedBoard(SegmentOf(input, k))
    /\ \E k \in 2..11 : SegmentOf(input, k) # DefaultBoard
    /\ result.kind = "Err"

====
